---- MODULE Spec2Model ----
(***************************************************************************)
(* Model of src/main.py: the frame-by-frame turn controller AudioRecording *)
(* of the voice assistant, and the loop of main that drives it.  One step  *)
(* of the model is one call of next_frame, one event put on the reply      *)
(* queue by the reply worker, or the end of the loop of main by a          *)
(* KeyboardInterrupt or by an exception raised by a collaborator.          *)
(*                                                                         *)
(* recording_audio_buffer is modelled by its length in bytes: every        *)
(* operation of the program on it either appends at the end or cuts at the *)
(* front, so the buffer always is the trailing window of the recorded      *)
(* stream and its length determines its content.                           *)
(***************************************************************************)
EXTENDS Integers, Sequences, FiniteSets, TLC

(* ---------------- bounds of the model ---------------- *)
\* speech frames counted in one listening episode
MaxSpeak == 16
\* messages in the conversation
MaxConv == 3
\* events waiting on the reply queue
MaxQueue == 2
\* frames spent in one replying episode
MaxReplyFrames == 18
\* seconds of audio the buffer may hold while the model keeps idling
MaxIdleSeconds == 21
\* frames after the idle cap is first reached in which a wake word is heard
MaxWakeFrames == 3

(* ---------------- program constants ---------------- *)
frame_length == 512
\* struct.pack("h", ...) writes two bytes per sample
SampleBytes == 2
frames_per_second == 32
buffer_size_when_not_listening == frame_length * 32 * 20
buffer_size_on_active_listening == frame_length * 32 * 60
silence_threshold == 300
\* silence_limit = 0.5 * 32 and speaking_minimum = 0.3 * 32 are floats; they are
\* kept as tenths so that the comparisons with the integer counters are exact
silence_limit_x10 == 5 * 32
speaking_minimum_x10 == 3 * 32
\* mutant: standby after as much silence as ends an utterance
standby_at_silence_limit == silence_limit_x10 \div 10
silence_time_to_standby == 10 * 32
transcription_flush_step == 1 * 32

\* Python's None, and the frame variable before the first read
None == [none |-> TRUE]
NoFrame == [rms |-> 0]
Empty == "Empty"

\* n >= x and n < x for an integer n and a float x given in tenths
GE(n, x10) == 10 * n >= x10
LT(n, x10) == 10 * n < x10

Min(a, b) == IF a < b THEN a ELSE b
Max(a, b) == IF a > b THEN a ELSE b

(* ---------------- bytearray operations (on lengths) ---------------- *)
\* bytes of struct.pack("h" * n, ...)
Pack(n) == n * SampleBytes
\* buf.extend(bytes)
Extend(buf, n) == buf + n
\* buf[k:] for k >= 0
SliceFrom(buf, k) == Max(buf - k, 0)
\* buf[-n:] for n >= 0; Python's buf[-0:] is the whole buffer
SliceLast(buf, n) == IF n = 0 THEN buf ELSE Min(buf, n)
\* the bytes of one recorded frame
FrameBytes == Pack(frame_length)

(* ---------------- inputs ---------------- *)
\* a frame read from the recorder, by its volume (calculate_volume)
Frames == { [rms |-> 299], [rms |-> 300] }
\* what porcupine.process may answer for a frame
Triggers == { -1, 0 }

Whitespace == {" ", "\n"}
\* what transcribe_and_stop may return
Transcripts == { <<>>, <<" ">>, <<" ", "a">> }

RECURSIVE LStrip(_)
LStrip(s) == IF s # <<>> /\ Head(s) \in Whitespace THEN LStrip(Tail(s)) ELSE s
RECURSIVE RStrip(_)
RStrip(s) ==
    IF s # <<>> /\ s[Len(s)] \in Whitespace THEN RStrip(SubSeq(s, 1, Len(s) - 1)) ELSE s
\* str.strip()
Strip(s) == RStrip(LStrip(s))

initial_message == [role |-> "system", content |-> <<"s">>]
assistant_message == [role |-> "assistant", content |-> <<"r">>]

\* the events the reply worker puts on the queue
Events ==
    { [action |-> "assistent_message", data |-> assistant_message],
      [action |-> "play_beep", data |-> "beep"],
      [action |-> "reply_audio_started", data |-> "playback"],
      [action |-> "reply_audio_ended", data |-> None] }

VARIABLES
    state,
    conversation,
    silence_frame_count,
    speaking_frame_count,
    recording_audio_buffer,
    interruption_detection,
    chat_gpt,
    pcm,
    calls,
    dropped,
    quiet,
    session,
    pc

vars ==
    << state, conversation, silence_frame_count, speaking_frame_count,
       recording_audio_buffer, interruption_detection, chat_gpt, pcm, calls, dropped,
       quiet, session, pc >>

\* the object as one record, so that methods compose as in the code
Self ==
    [ state |-> state,
      conversation |-> conversation,
      silence_frame_count |-> silence_frame_count,
      speaking_frame_count |-> speaking_frame_count,
      recording_audio_buffer |-> recording_audio_buffer,
      interruption_detection |-> interruption_detection,
      chat_gpt |-> chat_gpt,
      pcm |-> pcm,
      calls |-> calls,
      dropped |-> dropped ]

Assign(new) ==
    /\ state' = new.state
    /\ conversation' = new.conversation
    /\ silence_frame_count' = new.silence_frame_count
    /\ speaking_frame_count' = new.speaking_frame_count
    /\ recording_audio_buffer' = new.recording_audio_buffer
    /\ interruption_detection' = new.interruption_detection
    /\ chat_gpt' = new.chat_gpt
    /\ pcm' = new.pcm
    /\ calls' = new.calls
    /\ dropped' = new.dropped

\* a call made on a collaborator, with what it returned
Call(self, name, ret) == [self EXCEPT !.calls = Append(@, <<name, ret>>)]

\* the calls made by the last next_frame
Called(name) == \E i \in 1..Len(calls) : calls[i][1] = name
Returned(name, ret) ==
    \E i \in 1..Len(calls) : calls[i][1] = name /\ calls[i][2] = ret
Count(name) == Cardinality({i \in 1..Len(calls) : calls[i][1] = name})

(* ---------------- collaborators ---------------- *)
\* InterruptionDetection(): a detector that has not started checking
InterruptionDetection == [started |-> FALSE, stops |-> 0]

\* the detector is done once it has been told that the reply audio ended
is_done(det) == det.stops > 0

\* the detector evaluates frames only after start_reply_interruption_check;
\* whether the speech crossed its threshold is the input `crossed`
check_for_interruption(det, crossed) == det.started /\ crossed

\* ChatGPT(): no reply being produced, nothing on the queue, no reply asked for
ChatGPT == [queue |-> <<>>, worker |-> "idle", reply |-> 0]

\* chat_gpt.reply(conversation): the worker starts producing the reply to the
\* conversation it is given; a reply is named by the length of that conversation
chat_gpt_reply(self) ==
    [Call(self, "chat_gpt.reply", self.conversation) EXCEPT
        !.chat_gpt.worker = "running",
        !.chat_gpt.reply = Len(self.conversation)]

\* chat_gpt.restart(): the worker is cancelled and its pending events discarded
chat_gpt_restart(self) ==
    [Call(self, "chat_gpt.restart", "None") EXCEPT
        !.chat_gpt.queue = <<>>,
        !.chat_gpt.worker = "idle"]

\* chat_gpt.stop(): the worker is stopped for good
chat_gpt_stop(self) ==
    [Call(self, "chat_gpt.stop", "None") EXCEPT !.chat_gpt.worker = "stopped"]

\* an event on the queue, with the reply it was produced for
Tagged(ev, reply) == [action |-> ev.action, data |-> ev.data, reply |-> reply]

(* ---------------- AudioRecording ---------------- *)
is_silence(frame) == frame.rms < silence_threshold

\* mutant: entering waiting_for_silence keeps the detector
reset_keeps_detector(self, st) ==
    LET a == [Call(self, "recorder.start", "None") EXCEPT
                  !.state = st, !.silence_frame_count = 0]
    IN  IF st = "waiting_for_silence"
        THEN Call(a, "transcriber.restart", "None")
        ELSE IF st = "replying"
        THEN [a EXCEPT !.interruption_detection = InterruptionDetection]
        ELSE [a EXCEPT !.speaking_frame_count = 0,
                       !.recording_audio_buffer = 0,
                       !.interruption_detection = None]

\* mutant: entering waiting_for_silence leaves the transcriber as it is
reset_without_restart(self, st) ==
    LET a == [Call(self, "recorder.start", "None") EXCEPT
                  !.state = st, !.silence_frame_count = 0]
    IN  IF st = "waiting_for_silence"
        THEN [a EXCEPT !.interruption_detection = None]
        ELSE IF st = "replying"
        THEN [a EXCEPT !.interruption_detection = InterruptionDetection]
        ELSE [a EXCEPT !.speaking_frame_count = 0,
                       !.recording_audio_buffer = 0,
                       !.interruption_detection = None]

reset(self, st) ==
    LET a == [Call(self, "recorder.start", "None") EXCEPT
                  !.state = st, !.silence_frame_count = 0]
    IN  IF st = "waiting_for_silence"
        THEN [Call(a, "transcriber.restart", "None") EXCEPT
                  !.interruption_detection = None]
        ELSE IF st = "replying"
        THEN [a EXCEPT !.interruption_detection = InterruptionDetection]
        ELSE [a EXCEPT !.speaking_frame_count = 0,
                       !.recording_audio_buffer = 0,
                       !.interruption_detection = None]

\* mutant: the transcriber is stopped before the reply pipeline
stop_transcriber_first(self) ==
    LET a == Call(Call(self, "recorder.stop", "None"), "transcriber.stop", "None")
        b == chat_gpt_stop(a)
    IN  IF b.interruption_detection # None
        THEN [Call(b, "interruption_detection.stop", "None") EXCEPT
                 !.interruption_detection.stops = @ + 1]
        ELSE b

stop(self) ==
    LET a == chat_gpt_stop(Call(self, "recorder.stop", "None"))
        b == IF a.interruption_detection # None
             THEN [Call(a, "interruption_detection.stop", "None") EXCEPT
                      !.interruption_detection.stops = @ + 1]
             ELSE a
    IN  Call(b, "transcriber.stop", "None")

transcribe_buffer(self) ==
    [Call(self, "transcriber.consume", "None") EXCEPT
        !.recording_audio_buffer = SliceLast(@, Max(frame_length * 32 * 3, 0))]

drop_early_recording_audio_frames(self) ==
    IF self.recording_audio_buffer >
           (IF self.state = "waiting_for_wakeup"
            THEN buffer_size_when_not_listening
            ELSE buffer_size_on_active_listening)
    THEN [self EXCEPT
             !.recording_audio_buffer = SliceFrom(@, frame_length),
             !.dropped = self.recording_audio_buffer
                             - SliceFrom(self.recording_audio_buffer, frame_length)]
    ELSE self

\* mutant: the wake word goes straight to listening
waiting_for_wakeup_listens(self, frame, trigger) ==
    LET a == Call(self, "porcupine.process", trigger)
    IN  IF trigger >= 0
        THEN [Call(a, "elevenlabs.play", "beep2") EXCEPT
                 !.state = "waiting_for_silence"]
        ELSE a

waiting_for_wakeup(self, frame, trigger) ==
    LET a == Call(self, "porcupine.process", trigger)
    IN  IF trigger >= 0
        THEN [Call(a, "elevenlabs.play", "beep2") EXCEPT !.state = "start_reply"]
        ELSE a

\* mutant: the silence limit has to be exceeded, not reached
utterance_ended_late(self) ==
    /\ 10 * self.silence_frame_count > silence_limit_x10
    /\ GE(self.speaking_frame_count, speaking_minimum_x10)

\* the condition under which listening ends with a reply
utterance_ended(self) ==
    /\ GE(self.silence_frame_count, silence_limit_x10)
    /\ GE(self.speaking_frame_count, speaking_minimum_x10)

\* mutant: a short burst is forgotten only after three silence limits
spoke_too_short_late(self) ==
    /\ LT(self.speaking_frame_count, speaking_minimum_x10)
    /\ GE(self.silence_frame_count, silence_limit_x10 * 3)

\* the condition under which the speech counted so far is taken for noise
spoke_too_short(self) ==
    /\ LT(self.speaking_frame_count, speaking_minimum_x10)
    /\ GE(self.silence_frame_count, silence_limit_x10 * 2)

\* mutant: the buffer is flushed at every flush step, speech or not
flush_due_without_speech(self) ==
    (self.silence_frame_count + self.speaking_frame_count)
        % transcription_flush_step = 0

\* the condition of the periodic flush of the buffer to the transcriber
flush_due(self) ==
    /\ self.speaking_frame_count > 0
    /\ (self.silence_frame_count + self.speaking_frame_count)
           % transcription_flush_step = 0

waiting_for_silence(self, frame) ==
    LET a == IF is_silence(frame)
             THEN LET b == [self EXCEPT !.silence_frame_count = @ + 1]
                  IN  IF spoke_too_short(b)
                      THEN [b EXCEPT !.speaking_frame_count = 0]
                      ELSE b
             ELSE LET b == IF self.speaking_frame_count = 0
                           THEN [self EXCEPT !.recording_audio_buffer =
                                                 SliceLast(@, frame_length * 4)]
                           ELSE self
                  IN  [b EXCEPT !.speaking_frame_count = @ + 1,
                                !.silence_frame_count = 0]
        c == IF flush_due(a)
             THEN transcribe_buffer(a)
             ELSE a
        d == IF utterance_ended(c)
             THEN [transcribe_buffer(c) EXCEPT !.state = "start_reply"]
             ELSE c
    IN  IF d.silence_frame_count >= silence_time_to_standby
        THEN [Call(d, "elevenlabs.play", "byebye") EXCEPT
                 !.silence_frame_count = 0,
                 !.speaking_frame_count = 0,
                 !.state = "waiting_for_wakeup"]
        ELSE d

\* mutant: the newest event on the queue is taken first
poll_reply_newest_first(self) ==
    IF self.chat_gpt.queue = <<>>
    THEN Call(self, "chat_gpt.get", Empty)
    ELSE LET ev == self.chat_gpt.queue[Len(self.chat_gpt.queue)]
             a == [Call(self, "chat_gpt.get", ev.action) EXCEPT
                      !.chat_gpt.queue = SubSeq(@, 1, Len(@) - 1)]
         IN  CASE ev.action = "assistent_message" ->
                    [a EXCEPT !.conversation = Append(@, ev.data)]
               [] ev.action = "play_beep" ->
                    Call(Call(a, "interruption_detection.pause_for", "None"),
                         "elevenlabs.play", "beep")
               [] ev.action = "reply_audio_started" ->
                    [Call(a, "interruption_detection.start_reply_interruption_check",
                          "None") EXCEPT
                        !.silence_frame_count = 0,
                        !.speaking_frame_count = 0,
                        !.interruption_detection.started = TRUE]
               [] ev.action = "reply_audio_ended" ->
                    [Call(a, "interruption_detection.stop", "None") EXCEPT
                        !.interruption_detection.stops = @ + 1]
               [] OTHER -> a

\* (action, data) = self.chat_gpt.get(block=False) and the branch taken on it
poll_reply(self) ==
    IF self.chat_gpt.queue = <<>>
    THEN Call(self, "chat_gpt.get", Empty)
    ELSE LET ev == Head(self.chat_gpt.queue)
             a == [Call(self, "chat_gpt.get", ev.action) EXCEPT
                      !.chat_gpt.queue = Tail(@)]
         IN  CASE ev.action = "assistent_message" ->
                    [a EXCEPT !.conversation = Append(@, ev.data)]
               [] ev.action = "play_beep" ->
                    Call(Call(a, "interruption_detection.pause_for", "None"),
                         "elevenlabs.play", "beep")
               [] ev.action = "reply_audio_started" ->
                    [Call(a, "interruption_detection.start_reply_interruption_check",
                          "None") EXCEPT
                        !.silence_frame_count = 0,
                        !.speaking_frame_count = 0,
                        !.interruption_detection.started = TRUE]
               [] ev.action = "reply_audio_ended" ->
                    [Call(a, "interruption_detection.stop", "None") EXCEPT
                        !.interruption_detection.stops = @ + 1]
               [] OTHER -> a

\* mutant: the finished reply stops the detector once more
finish_reply_stops_again(self) ==
    reset([Call(self, "interruption_detection.stop", "None") EXCEPT
              !.recording_audio_buffer = SliceLast(@, frame_length * 2),
              !.speaking_frame_count = 0],
          "waiting_for_silence")

\* the branch of replying_loop taken when is_done() is true
finish_reply(self) ==
    reset([self EXCEPT
              !.recording_audio_buffer = SliceLast(@, frame_length * 2),
              !.speaking_frame_count = 0],
          "waiting_for_silence")

\* mutant: the interrupted reply is left to its worker
interrupt_reply_without_restart(self) ==
    reset([self EXCEPT
              !.recording_audio_buffer = SliceLast(@, frame_length * 32)],
          "waiting_for_silence")

\* the branch of replying_loop taken when check_for_interruption() is true
interrupt_reply(self) ==
    reset([chat_gpt_restart(self) EXCEPT
              !.recording_audio_buffer = SliceLast(@, frame_length * 32)],
          "waiting_for_silence")

replying_loop(self, frame, crossed) ==
    IF self.interruption_detection = None
    THEN self
    ELSE LET a == poll_reply(self)
         IN  IF is_done(a.interruption_detection)
             THEN finish_reply(Call(a, "interruption_detection.is_done", "True"))
             ELSE LET interrupted ==
                          check_for_interruption(a.interruption_detection, crossed)
                      b == Call(Call(a, "interruption_detection.is_done", "False"),
                                "interruption_detection.check_for_interruption",
                                IF interrupted THEN "True" ELSE "False")
                  IN  IF interrupted THEN interrupt_reply(b) ELSE b

\* mutant: only the empty transcript counts as a mistake
transcription_too_small_unstripped(transcription) == Len(transcription) = 0

\* len(transcription.strip()) == 0
transcription_too_small(transcription) == Len(Strip(transcription)) = 0

\* mutant: the reply is asked for before the user message is appended
start_reply_dispatches_first(self, transcription) ==
    LET a == Call(Call(self, "recorder.stop", "None"),
                  "transcriber.transcribe_and_stop", transcription)
    IN  IF transcription_too_small(transcription)
        THEN reset(a, "waiting_for_silence")
        ELSE LET user_message == [role |-> "user", content |-> transcription]
                 b == [chat_gpt_reply(a) EXCEPT
                          !.conversation = Append(@, user_message),
                          !.recording_audio_buffer = SliceLast(@, frame_length)]
             IN  Call(reset(b, "replying"), "recorder.start", "None")

\* mutant: entering replying trims the buffer as the end of a reply does
start_reply_trims_as_finish(self, transcription) ==
    LET a == Call(Call(self, "recorder.stop", "None"),
                  "transcriber.transcribe_and_stop", transcription)
    IN  IF transcription_too_small(transcription)
        THEN reset(a, "waiting_for_silence")
        ELSE LET user_message == [role |-> "user", content |-> transcription]
                 b == [a EXCEPT
                          !.conversation = Append(@, user_message),
                          !.recording_audio_buffer = SliceLast(@, frame_length * 2)]
             IN  Call(reset(chat_gpt_reply(b), "replying"), "recorder.start", "None")

start_reply(self, transcription) ==
    LET a == Call(Call(self, "recorder.stop", "None"),
                  "transcriber.transcribe_and_stop", transcription)
    IN  IF transcription_too_small(transcription)
        THEN reset(a, "waiting_for_silence")
        ELSE LET user_message == [role |-> "user", content |-> transcription]
                 b == [a EXCEPT
                          !.conversation = Append(@, user_message),
                          !.recording_audio_buffer = SliceLast(@, frame_length)]
             IN  Call(reset(chat_gpt_reply(b), "replying"), "recorder.start", "None")

\* the head of next_frame: the frame is read and buffered
read_frame(self, frame) ==
    drop_early_recording_audio_frames(
        [Call([self EXCEPT !.calls = <<>>, !.dropped = 0],
              "recorder.read", "pcm") EXCEPT
            !.pcm = frame,
            !.recording_audio_buffer = Extend(@, Pack(frame_length))])

next_frame(self, frame, trigger, transcription, crossed) ==
    LET b == read_frame(self, frame)
    IN  CASE b.state = "waiting_for_wakeup" -> waiting_for_wakeup(b, frame, trigger)
          [] b.state = "waiting_for_silence" -> waiting_for_silence(b, frame)
          [] b.state = "start_reply" -> start_reply(b, transcription)
          [] b.state = "replying" -> replying_loop(b, frame, crossed)

\* history: where the transcriber stands in its protocol after the calls cs,
\* starting from st: "closed" (new, or after transcribe_and_stop), "open"
\* (after restart), "broken" (a call made out of turn)
RECURSIVE Session(_, _)
Session(st, cs) ==
    IF cs = <<>>
    THEN st
    ELSE LET name == Head(cs)[1]
             next == CASE name = "transcriber.restart" ->
                            IF st = "closed" THEN "open" ELSE "broken"
                       [] name = "transcriber.consume" ->
                            IF st = "open" THEN "open" ELSE "broken"
                       [] name = "transcriber.transcribe_and_stop" ->
                            IF st = "open" THEN "closed" ELSE "broken"
                       [] OTHER -> st
         IN  Session(next, Tail(cs))

\* AudioRecording.__init__
Constructed ==
    reset([ state |-> "unset",
            conversation |-> <<initial_message>>,
            silence_frame_count |-> 0,
            speaking_frame_count |-> 0,
            recording_audio_buffer |-> 0,
            interruption_detection |-> None,
            chat_gpt |-> ChatGPT,
            pcm |-> NoFrame,
            calls |-> <<>>,
            dropped |-> 0 ],
          "waiting_for_silence")

Init ==
    /\ state = Constructed.state
    /\ conversation = Constructed.conversation
    /\ silence_frame_count = Constructed.silence_frame_count
    /\ speaking_frame_count = Constructed.speaking_frame_count
    /\ recording_audio_buffer = Constructed.recording_audio_buffer
    /\ interruption_detection = Constructed.interruption_detection
    /\ chat_gpt = Constructed.chat_gpt
    /\ pcm = Constructed.pcm
    /\ calls = Constructed.calls
    /\ dropped = Constructed.dropped
    /\ quiet = TRUE
    /\ session = Session("closed", Constructed.calls)
    /\ pc = "running"

\* the part of the run the model explores (see the bounds)
InBounds(frame, trigger, transcription) ==
    /\ state = "waiting_for_wakeup" =>
          /\ recording_audio_buffer
                 < MaxIdleSeconds * frames_per_second * FrameBytes
          /\ trigger >= 0 =>
                 recording_audio_buffer
                     <= buffer_size_when_not_listening + MaxWakeFrames * FrameBytes
    /\ state = "waiting_for_silence" =>
          (~is_silence(frame) => speaking_frame_count < MaxSpeak)
    /\ state = "start_reply" =>
          (~transcription_too_small(transcription) => Len(conversation) < MaxConv)
    /\ state = "replying" =>
          recording_audio_buffer < MaxReplyFrames * FrameBytes

\* history: every frame since the machine last entered waiting_for_silence
\* was silent (kept up to the call that leaves waiting_for_silence)
Quiet(new, frame) ==
    IF state # "waiting_for_silence"
    THEN new.state = "waiting_for_silence"
    ELSE quiet /\ is_silence(frame)

\* the answers of the collaborators that the call in this state asks for
TriggersAsked == IF state = "waiting_for_wakeup" THEN Triggers ELSE {-1}
TranscriptsAsked == IF state = "start_reply" THEN Transcripts ELSE {<<>>}
CrossedAsked == IF state = "replying" THEN BOOLEAN ELSE {FALSE}

\* one iteration of the loop of main: audio_recording.next_frame()
NextFrame ==
    \E frame \in Frames, trigger \in TriggersAsked,
       transcription \in TranscriptsAsked, crossed \in CrossedAsked :
        LET new == next_frame(Self, frame, trigger, transcription, crossed)
        IN  /\ pc = "running"
            /\ InBounds(frame, trigger, transcription)
            /\ Assign(new)
            /\ quiet' = Quiet(new, frame)
            /\ session' = Session(session, new.calls)
            /\ pc' = pc

PendingMessages ==
    Cardinality({i \in 1..Len(chat_gpt.queue) :
                    chat_gpt.queue[i].action = "assistent_message"})

\* the reply worker puts one event on the queue; reply_audio_ended is the
\* last event of a reply
WorkerPut ==
    \E ev \in Events :
        /\ chat_gpt.worker = "running"
        /\ Len(chat_gpt.queue) < MaxQueue
        /\ ev.action = "assistent_message" =>
               Len(conversation) + PendingMessages < MaxConv
        /\ chat_gpt' =
               [chat_gpt EXCEPT
                   !.queue = Append(@, Tagged(ev, chat_gpt.reply)),
                   !.worker = IF ev.action = "reply_audio_ended" THEN "idle" ELSE @]
        /\ UNCHANGED << state, conversation, silence_frame_count, speaking_frame_count,
                        recording_audio_buffer, interruption_detection, pcm, calls,
                        dropped, quiet, session, pc >>

\* the finally clause of main
main_finally(self) ==
    Call(Call(self, "recorder.delete", "None"), "porcupine.delete", "None")

\* the process ends: the audio and the counters it held are gone with it;
\* what the shutdown called, and the collaborators it called or left alone,
\* remain to be looked at
Exited(self) ==
    [self EXCEPT !.silence_frame_count = 0,
                 !.speaking_frame_count = 0,
                 !.recording_audio_buffer = 0,
                 !.pcm = NoFrame,
                 !.dropped = 0]

\* a KeyboardInterrupt ends the loop of main: except KeyboardInterrupt runs
\* audio_recording.stop(), then the finally clause runs
KeyboardInterrupt ==
    /\ pc = "running"
    /\ Assign(Exited(main_finally(stop([Self EXCEPT !.calls = <<>>]))))
    /\ pc' = "interrupted"
    /\ UNCHANGED << quiet, session >>

\* what a collaborator call that raises leaves in the log
Raised == "raised"

\* next_frame up to the first call of the handler on an external service,
\* which raises
raising_frame(self, frame) ==
    LET b == read_frame(self, frame)
    IN  CASE b.state = "waiting_for_wakeup" -> Call(b, "porcupine.process", Raised)
          [] b.state = "waiting_for_silence" -> Call(b, "transcriber.consume", Raised)
          [] b.state = "start_reply" ->
                Call(Call(b, "recorder.stop", "None"),
                     "transcriber.transcribe_and_stop", Raised)
          [] b.state = "replying" -> Call(b, "chat_gpt.get", Raised)

\* the handler of this frame calls transcriber.consume
ConsumeDue(frame) ==
    LET new == waiting_for_silence(read_frame(Self, frame), frame)
    IN  \E i \in 1..Len(new.calls) : new.calls[i][1] = "transcriber.consume"

\* an exception other than KeyboardInterrupt leaves next_frame: no except
\* clause of main matches it, only the finally clause runs
Raises ==
    \E frame \in Frames :
        /\ pc = "running"
        /\ state = "waiting_for_silence" => ConsumeDue(frame)
        /\ Assign(Exited(main_finally(raising_frame(Self, frame))))
        /\ pc' = "failed"
        /\ UNCHANGED << quiet, session >>

Next == NextFrame \/ WorkerPut \/ KeyboardInterrupt \/ Raises

Spec == Init /\ [][Next]_vars

(***************************************************************************)
(* Properties                                                              *)
(***************************************************************************)
\* n seconds of audio, in bytes of recording_audio_buffer
SecondsOfAudio(n) == n * frames_per_second * FrameBytes
\* n frames of audio, in bytes
FramesOfAudio(n) == n * FrameBytes
silence_limit == silence_limit_x10 \div 10
\* the first speaking_frame_count that is >= speaking_minimum
FirstSpeakingCount == CHOOSE n \in 0..MaxSpeak :
    GE(n, speaking_minimum_x10) /\ (n = 0 \/ LT(n - 1, speaking_minimum_x10))
IsBlank(t) == \A i \in 1..Len(t) : t[i] \in Whitespace

Edges ==
    { <<"waiting_for_wakeup", "waiting_for_wakeup">>,
      <<"waiting_for_wakeup", "start_reply">>,
      <<"waiting_for_silence", "waiting_for_silence">>,
      <<"waiting_for_silence", "start_reply">>,
      <<"waiting_for_silence", "waiting_for_wakeup">>,
      <<"start_reply", "waiting_for_silence">>,
      <<"start_reply", "replying">> ,
      <<"replying", "replying">>,
      <<"replying", "waiting_for_silence">> }

\* C1: the machine starts in waiting_for_silence and a call of next_frame
\* changes `state` only along the listed edges.
C1_Transitions ==
    /\ state = "waiting_for_silence"
    /\ [][NextFrame => <<state, state'>> \in Edges]_vars

\* the wake word has just moved the machine from waiting_for_wakeup to start_reply
C1_Witness == state = "start_reply" /\ Returned("porcupine.process", 0)

\* C2: after a call of next_frame that ran in the state the machine is in, the
\* buffer holds at most 20 s of audio in waiting_for_wakeup and at most 60 s of
\* audio in every other state.
C2_BufferWithinCap ==
    /\ (state = "waiting_for_wakeup" /\ Called("porcupine.process")) =>
           recording_audio_buffer <= SecondsOfAudio(20)
    /\ state # "waiting_for_wakeup" =>
           recording_audio_buffer <= SecondsOfAudio(60)

\* C3: what drop_early_recording_audio_frames removes in a call is a whole
\* number of frames (of 512 samples of 2 bytes).
C3_WholeFramesDropped == dropped % FrameBytes = 0

\* C4: after the call that leaves waiting_for_silence, and after the call
\* that enters it again, silence_frame_count and speaking_frame_count are
\* both 0.
C4_CountersResetTogether ==
    (\/ state = "start_reply" /\ ~Called("porcupine.process")
     \/ state = "waiting_for_wakeup" /\ Returned("elevenlabs.play", "byebye")
     \/ state = "waiting_for_silence" /\ Called("transcriber.restart"))
    => (silence_frame_count = 0 /\ speaking_frame_count = 0)

\* C5: between calls a detector exists exactly while state is replying; it is
\* a new detector on entry to replying and is the same one until the episode
\* ends, when it is discarded.
C5_DetectorIffReplying ==
    /\ []((interruption_detection # None) <=> (state = "replying"))
    /\ [][/\ (state # "replying" /\ state' = "replying") =>
                 (interruption_detection = None
                  /\ interruption_detection' = InterruptionDetection)
          /\ (state = "replying" /\ state' # "replying") =>
                 interruption_detection' = None]_vars

\* an episode has just ended and its detector is gone
C5_Witness ==
    /\ state = "waiting_for_silence"
    /\ Called("interruption_detection.is_done")
    /\ interruption_detection = None

\* C6: in waiting_for_silence a speech frame adds one to speaking_frame_count
\* and never leaves the state; once the speaking count has reached
\* speaking_minimum, every silence frame adds one to silence_frame_count and
\* the machine moves to start_reply on exactly the frame that brings
\* silence_frame_count to silence_limit, so that the threshold is never
\* passed while listening.
C6_StartReplyAtSilenceLimit ==
    /\ []((state = "waiting_for_silence"
           /\ GE(speaking_frame_count, speaking_minimum_x10))
          => LT(silence_frame_count, silence_limit_x10))
    /\ [][(state = "waiting_for_silence" /\ NextFrame) =>
            /\ ~is_silence(pcm') =>
                  /\ state' = "waiting_for_silence"
                  /\ speaking_frame_count' = speaking_frame_count + 1
                  /\ silence_frame_count' = 0
            /\ (is_silence(pcm') /\ GE(speaking_frame_count, speaking_minimum_x10)) =>
                  /\ silence_frame_count' = silence_frame_count + 1
                  /\ speaking_frame_count' = speaking_frame_count
                  /\ state' \in {"waiting_for_silence", "start_reply"}
                  /\ (state' = "start_reply") <=>
                         (silence_frame_count' = silence_limit)]_vars

\* from counters 0: the first speech frame cut the buffer to 4 * frame_length
\* bytes, and FirstSpeakingCount speech frames and silence_limit silence
\* frames in a row have brought the machine to start_reply
C6_Witness ==
    /\ state = "start_reply"
    /\ conversation = <<initial_message>>
    /\ speaking_frame_count = FirstSpeakingCount
    /\ silence_frame_count = silence_limit
    /\ recording_audio_buffer =
           frame_length * 4
               + FramesOfAudio(FirstSpeakingCount - 1 + silence_limit)

\* C7: while every frame since the machine entered waiting_for_silence is
\* silent, the machine does not move to start_reply, and it has left
\* waiting_for_silence by the frame that counts silence_time_to_standby.
C7_SilenceLeadsToStandby ==
    /\ (state = "start_reply" /\ ~Called("porcupine.process")) => ~quiet
    /\ (state = "waiting_for_silence" /\ quiet) =>
           silence_frame_count < silence_time_to_standby

\* C8: a call in start_reply whose transcript is empty or whitespace leaves
\* the conversation as it was, does not call chat_gpt.reply, creates no
\* detector and ends in waiting_for_silence.
C8_BlankTranscript ==
    [][(/\ state = "start_reply"
        /\ NextFrame
        /\ \E t \in Transcripts :
               IsBlank(t) /\ Returned("transcriber.transcribe_and_stop", t)')
       => /\ conversation' = conversation
          /\ ~Called("chat_gpt.reply")'
          /\ interruption_detection' = None
          /\ state' = "waiting_for_silence"]_vars

\* a whitespace transcript has just sent the machine back to listening
C8_Witness ==
    /\ state = "waiting_for_silence"
    /\ Returned("transcriber.transcribe_and_stop", <<" ">>)

\* C9: a call in replying in which check_for_interruption returns true
\* appends nothing to the conversation, leaves in the buffer the last 32
\* frames of audio (all of it when there is less) and ends in
\* waiting_for_silence.
C9_InterruptionEffects ==
    [][(/\ state = "replying"
        /\ Returned("interruption_detection.check_for_interruption", "True")'
        /\ NextFrame)
       => /\ conversation' = conversation
          /\ recording_audio_buffer' =
                 SliceLast(Extend(recording_audio_buffer, FrameBytes),
                           FramesOfAudio(32))
          /\ state' = "waiting_for_silence"]_vars

C11_TranscriberProtocol ==
    /\ session = "open" /\ Count("transcriber.restart") = 1
    /\ [](session # "broken")
    /\ [][NextFrame =>
            /\ Count("transcriber.restart")' =
                   (IF state # "waiting_for_silence" /\ state' = "waiting_for_silence"
                    THEN 1 ELSE 0)
            /\ Count("transcriber.transcribe_and_stop")' =
                   (IF state = "start_reply" THEN 1 ELSE 0)
            /\ Called("transcriber.consume")' =>
                   (state = "waiting_for_silence" /\ session = "open")]_vars

\* a second utterance was flushed to the transcriber and is about to be
\* transcribed
C11_Witness ==
    /\ state = "start_reply"
    /\ Len(conversation) > 1
    /\ session = "open"
    /\ Called("transcriber.consume")

\* the calls of cs that stop a collaborator
StopCalls(cs) ==
    LET IsStop(c) == c[1] \in { "recorder.stop", "chat_gpt.stop",
                                "interruption_detection.stop", "transcriber.stop" }
    IN  SelectSeq(cs, IsStop)

\* C12: when a KeyboardInterrupt ends the loop, in whatever state the machine
\* is, the shutdown stops the recorder, then the reply pipeline, then the
\* interruption detector if and only if there is one, then the transcriber,
\* each exactly once, before main returns
C12_OrderlyShutdown ==
    [][(pc = "running" /\ pc' = "interrupted") =>
          StopCalls(calls') =
                 << <<"recorder.stop", "None">>, <<"chat_gpt.stop", "None">> >>
                 \o (IF interruption_detection # None
                     THEN << <<"interruption_detection.stop", "None">> >>
                     ELSE << >>)
                 \o << <<"transcriber.stop", "None">> >>]_vars

\* the loop was interrupted during a reply, and the detector was stopped
C12_Witness ==
    /\ pc = "interrupted"
    /\ state = "replying"
    /\ Called("interruption_detection.stop")
    /\ Called("transcriber.stop")

\* C13: when a call on an external collaborator raises inside next_frame,
\* the loop of main stops the recorder, the reply pipeline, the transcriber
\* and the detector, if there is one, before the process ends; the reply
\* worker is not left running
C13_FailureCleansUp ==
    pc = "failed" =>
        /\ Called("recorder.stop")
        /\ Called("chat_gpt.stop")
        /\ Called("transcriber.stop")
        /\ interruption_detection # None => Called("interruption_detection.stop")
        /\ chat_gpt.worker # "running"

\* C14: once a reply is interrupted and chat_gpt.restart() is called, no event
\* produced for that reply is consumed by replying_loop, in that episode or
\* a later one, and no assistant message of it is appended: the interruption
\* leaves the queue empty and the worker idle, outside "replying" nothing is
\* pending or produced, and every event consumed was produced for the reply
\* dispatched last
C14_NoStaleEvents ==
    /\ [](\A i \in 1..Len(chat_gpt.queue) : chat_gpt.queue[i].reply = chat_gpt.reply)
    /\ []((pc = "running" /\ state # "replying") =>
              (chat_gpt.queue = << >> /\ chat_gpt.worker = "idle"))
    /\ [][NextFrame =>
            /\ Returned("interruption_detection.check_for_interruption", "True")' =>
                   /\ Called("chat_gpt.restart")'
                   /\ chat_gpt'.queue = << >>
                   /\ chat_gpt'.worker = "idle"
            /\ (state = "replying" /\ chat_gpt.queue # << >>) =>
                   /\ Head(chat_gpt.queue).reply = chat_gpt.reply
                   /\ \E i \in 1..Len(calls') :
                          /\ calls'[i][1] = "chat_gpt.get"
                          /\ calls'[i][2] = Head(chat_gpt.queue).action
            /\ (state = "replying" /\ conversation' # conversation) =>
                   /\ chat_gpt.queue # << >>
                   /\ Head(chat_gpt.queue).reply = chat_gpt.reply
                   /\ conversation' = Append(conversation, Head(chat_gpt.queue).data)]_vars

\* a later reply is being produced after an earlier one was interrupted
\* before its message was consumed
C14_Witness ==
    /\ state = "replying"
    /\ Len(conversation) = 3
    /\ conversation[2].role = "user" /\ conversation[3].role = "user"
    /\ chat_gpt.queue # << >>
    /\ Returned("chat_gpt.get", "play_beep")

\* the call made in start_reply that moves on to replying
Dispatching == state = "start_reply" /\ state' = "replying" /\ NextFrame

\* C15: the conversation is append-only: it starts as the one initial
\* message and no step removes or changes an entry; the call that moves from
\* start_reply to replying appends exactly one user message, before
\* chat_gpt.reply is called, so that the conversation handed to chat_gpt.reply
\* ends with that message; no other call appends a user message; assistant
\* messages are appended only by calls made in replying
C15_ConversationAppendOnly ==
    /\ conversation = << initial_message >>
    /\ [][/\ Dispatching =>
               /\ \E t \in Transcripts :
                      conversation' =
                          Append(conversation, [role |-> "user", content |-> t])
               /\ Count("chat_gpt.reply")' = 1
               /\ \A i \in 1..Len(calls') :
                      calls'[i][1] = "chat_gpt.reply" => calls'[i][2] = conversation'
          /\ ~Dispatching =>
               \/ /\ conversation' = conversation
                  /\ Called("chat_gpt.reply")' => ~NextFrame
               \/ /\ state = "replying" /\ NextFrame
                  /\ ~Called("chat_gpt.reply")'
                  /\ Len(conversation') = Len(conversation) + 1
                  /\ SubSeq(conversation', 1, Len(conversation)) = conversation
                  /\ conversation'[Len(conversation')].role = "assistant"]_vars

\* a second user message has been appended and handed to chat_gpt.reply
C15_Witness ==
    /\ state = "replying"
    /\ Count("chat_gpt.reply") = 1
    /\ Len(conversation) = 3
    /\ conversation[3] = [role |-> "user", content |-> << " ", "a" >>]
    /\ chat_gpt.reply = 3

\* C16: in replying every call of next_frame polls the queue exactly once,
\* without blocking, and consumes at most one event, the oldest; when no
\* event is pending the call goes on and still makes the is_done check, and
\* the interruption check if the reply is not done, on the same frame
C16_OnePollPerFrame ==
    /\ []((/\ pc = "running" /\ state = "replying" /\ chat_gpt.queue = << >>
           /\ recording_audio_buffer < MaxReplyFrames * FrameBytes)
              => ENABLED NextFrame)
    /\ [][(state = "replying" /\ NextFrame) =>
            /\ Count("chat_gpt.get")' = 1
            /\ Count("interruption_detection.is_done")' = 1
            /\ Returned("interruption_detection.is_done", "False")' =>
                   Count("interruption_detection.check_for_interruption")' = 1
            /\ chat_gpt.queue = << >> =>
                   /\ Returned("chat_gpt.get", Empty)'
                   /\ chat_gpt'.queue = << >>
            /\ chat_gpt.queue # << >> =>
                   /\ \E i \in 1..Len(calls') :
                          /\ calls'[i][1] = "chat_gpt.get"
                          /\ calls'[i][2] = Head(chat_gpt.queue).action
                   /\ \/ chat_gpt'.queue = Tail(chat_gpt.queue)
                      \/ Called("chat_gpt.restart")' /\ chat_gpt'.queue = << >>]_vars

\* a frame of the reply found the queue empty and was checked for an
\* interruption all the same
C16_Witness ==
    /\ state = "replying"
    /\ Returned("chat_gpt.get", Empty)
    /\ Returned("interruption_detection.is_done", "False")
    /\ Returned("interruption_detection.check_for_interruption", "False")
    /\ interruption_detection.started

C18_ShortSpeechForgotten ==
    /\ []((/\ pc = "running" /\ state = "waiting_for_silence"
           /\ GE(silence_frame_count, silence_limit_x10 * 2))
              => \/ speaking_frame_count = 0
                 \/ GE(speaking_frame_count, speaking_minimum_x10))
    /\ [][(/\ state = "waiting_for_silence"
           /\ is_silence(pcm')
           /\ GE(silence_frame_count + 1, silence_limit_x10 * 2)
           /\ LT(speaking_frame_count, speaking_minimum_x10)
           /\ NextFrame)
              => speaking_frame_count' = 0]_vars

\* speech shorter than speaking_minimum was followed by 2 * silence_limit
\* silent frames and has just been forgotten
C18_Witness ==
    /\ state = "waiting_for_silence"
    /\ ~quiet
    /\ 10 * silence_frame_count = silence_limit_x10 * 2
    /\ speaking_frame_count = 0

\* a call made in waiting_for_silence that does not go to standby: its
\* counters after the call are the counters the flush conditions looked at
Listening ==
    state = "waiting_for_silence" /\ state' # "waiting_for_wakeup" /\ NextFrame

\* C19: in waiting_for_silence transcriber.consume is called on every frame
\* at which silence_frame_count + speaking_frame_count reaches a multiple of
\* the flush step, whatever the two counters are, and no call of next_frame
\* calls consume more than once
C19_FlushEveryStep ==
    [][Listening =>
          /\ (silence_frame_count' + speaking_frame_count')
                 % transcription_flush_step = 0
                    => Called("transcriber.consume")'
          /\ Count("transcriber.consume")' <= 1]_vars

\* C19, amended: in waiting_for_silence transcriber.consume is called once on
\* every frame at which speaking_frame_count > 0 and silence_frame_count +
\* speaking_frame_count is a multiple of the flush step, and once more on the
\* frame that moves to start_reply; a call of next_frame calls consume at
\* most twice, and not at all when it goes to standby
C19_FlushWhenSpeaking ==
    [][(state = "waiting_for_silence" /\ NextFrame) =>
          Count("transcriber.consume")' =
              (IF /\ state' # "waiting_for_wakeup"
                  /\ speaking_frame_count' > 0
                  /\ (silence_frame_count' + speaking_frame_count')
                         % transcription_flush_step = 0
               THEN 1 ELSE 0)
              + (IF state' = "start_reply" THEN 1 ELSE 0)]_vars

\* the frame that ended the utterance was also a flush step: consume was
\* called twice
C19_Witness ==
    /\ state = "start_reply"
    /\ (silence_frame_count + speaking_frame_count) % transcription_flush_step = 0
    /\ Count("transcriber.consume") = 2

\* C20: in waiting_for_silence the two exit conditions are never both true
\* on one frame: no reachable state has, after the counter update,
\* silence_frame_count >= silence_limit and speaking_frame_count >=
\* speaking_minimum together with silence_frame_count >=
\* silence_time_to_standby; so the standby check never overrides a decision
\* for start_reply, and the frame of the final flush always leads to
\* start_reply
C20_ExitsExclusive ==
    /\ []((pc = "running" /\ state = "waiting_for_silence") =>
              ~(/\ GE(silence_frame_count + 1, silence_limit_x10)
                /\ GE(speaking_frame_count, speaking_minimum_x10)
                /\ silence_frame_count + 1 >= silence_time_to_standby))
    /\ [][(state = "waiting_for_silence" /\ NextFrame) =>
            /\ (/\ is_silence(pcm')
                /\ GE(silence_frame_count + 1, silence_limit_x10)
                /\ GE(speaking_frame_count, speaking_minimum_x10))
                   => /\ state' = "start_reply"
                      /\ Called("transcriber.consume")'
                      /\ ~Called("elevenlabs.play")'
            /\ Returned("elevenlabs.play", "byebye")'
                   => /\ state' = "waiting_for_wakeup"
                      /\ ~Called("transcriber.consume")'
                      /\ speaking_frame_count = 0]_vars

\* standby was reached in an episode in which speech had been heard and
\* forgotten: nothing was flushed on that frame
C20_Witness ==
    /\ state = "waiting_for_wakeup"
    /\ Returned("elevenlabs.play", "byebye")
    /\ ~quiet
    /\ ~Called("transcriber.consume")
====
